---------------------------- MODULE Spec2Model ----------------------------
(***************************************************************************)
(* Model of inverted_index.py: the corpus loader, the stopword loader, the *)
(* index builder, the InvertedIndex class (query, dump, load) and the two  *)
(* pipelines process_build and process_query.                              *)
(*                                                                         *)
(* A Python str is a sequence of one-character strings.  A Python dict is  *)
(* a sequence of <<key, value>> pairs with distinct keys, in insertion     *)
(* order.  A value that went through json is a record [t, v] with          *)
(* t \in {"int", "str", "arr", "obj"}; an InvertedIndex instance is the    *)
(* value held in its inverted_index attribute.                             *)
(***************************************************************************)
EXTENDS Integers, Sequences, FiniteSets, TLC

VARIABLES pc, dataset, lineNo, docs, documents, stopfile, stopwords,
          built, indexFile, index, words, result, dumped

vars == <<pc, dataset, lineNo, docs, documents, stopfile, stopwords,
          built, indexFile, index, words, result, dumped>>

\* ------------------------------------------------------------------ bounds
MaxDocs == 2

MaxTerms == 2

\* ------------------------------------------------------------- characters
TAB == "\t"

NL == "\n"

QUOTE == "\""

None == [t |-> "none", v |-> 0]

Whitespace == {" ", TAB, NL, "\r"}

Digits == <<"0", "1", "2", "3", "4", "5", "6", "7", "8", "9">>

DigitChars == {Digits[i] : i \in 1..10}

\* characters matched by \w in the pattern of re.split
WordChars == DigitChars \cup {"a", "b", "z", "A", "B", "_"}

Range(s) == {s[i] : i \in DOMAIN s}

\* str.lower, one character and a whole string
LowerChar(c) == IF c = "A" THEN "a" ELSE IF c = "B" THEN "b" ELSE c

Lower(s) == [i \in DOMAIN s |-> LowerChar(s[i])]

RECURSIVE Strip(_)
\* str.strip: drop leading and trailing whitespace
Strip(s) ==
    IF s = <<>> THEN s
    ELSE IF Head(s) \in Whitespace THEN Strip(Tail(s))
    ELSE IF s[Len(s)] \in Whitespace THEN Strip(SubSeq(s, 1, Len(s) - 1))
    ELSE s

\* index of the first character of s that satisfies membership in cs, 0 if none
FirstIn(s, cs) ==
    IF \E i \in DOMAIN s : s[i] \in cs
    THEN CHOOSE i \in DOMAIN s : s[i] \in cs /\ \A j \in 1..(i - 1) : s[j] \notin cs
    ELSE 0

\* line.split("\t", 1): one piece without a tab, else two pieces
SplitTab(line) ==
    LET i == FirstIn(line, {TAB})
    IN  IF i = 0 THEN <<line>>
        ELSE <<SubSeq(line, 1, i - 1), SubSeq(line, i + 1, Len(line))>>

DigitValue(c) == (CHOOSE i \in 1..10 : Digits[i] = c) - 1

RECURSIVE DecimalValue(_)
DecimalValue(s) ==
    IF s = <<>> THEN 0
    ELSE 10 * DecimalValue(SubSeq(s, 1, Len(s) - 1)) + DigitValue(s[Len(s)])

\* int(text): surrounding whitespace is ignored, then decimal digits are
\* required (sign and underscore are outside the modelled alphabet)
IntOk(text) ==
    LET s == Strip(text) IN s # <<>> /\ \A i \in DOMAIN s : s[i] \in DigitChars

IntValue(text) == DecimalValue(Strip(text))

\* ------------------------------------------------------------------ dicts
DictKeys(d) == {d[i][1] : i \in DOMAIN d}

DictHas(d, k) == k \in DictKeys(d)

DictPos(d, k) == CHOOSE i \in DOMAIN d : d[i][1] = k

\* d.get(k, default)
DictGet(d, k, default) == IF DictHas(d, k) THEN d[DictPos(d, k)][2] ELSE default

\* d[k] = v: an existing key keeps its position, a new key is appended
DictSet(d, k, v) ==
    IF DictHas(d, k) THEN [d EXCEPT ![DictPos(d, k)] = <<k, v>>]
    ELSE Append(d, <<k, v>>)

\* ------------------------------------------------------------- tokenizer
RECURSIVE ReSplit(_)
\* re.split(r"\W+", content): the pieces between maximal runs of non-word
\* characters, the empty pieces at both ends included
ReSplit(content) ==
    LET nonword == {content[i] : i \in DOMAIN content} \ WordChars
        i == FirstIn(content, nonword)
        rest == SubSeq(content, i, Len(content))
        j == FirstIn(rest, WordChars)
    IN  IF i = 0 THEN <<content>>
        ELSE IF j = 0 THEN <<SubSeq(content, 1, i - 1), <<>>>>
        ELSE <<SubSeq(content, 1, i - 1)>> \o ReSplit(SubSeq(rest, j, Len(rest)))

\* [word for word in words if word not in stopwords]
FilterWords(ws, stop) == SelectSeq(ws, LAMBDA w : w \notin stop)

\* ------------------------------------------------------------------- json
JInt(n) == [t |-> "int", v |-> n]

JStr(s) == [t |-> "str", v |-> s]

JArr(a) == [t |-> "arr", v |-> a]

JObj(d) == [t |-> "obj", v |-> d]

RECURSIVE IntRepr(_)
\* the decimal text json writes for a non-negative int
IntRepr(n) ==
    IF n < 10 THEN <<Digits[n + 1]>>
    ELSE IntRepr(n \div 10) \o <<Digits[(n % 10) + 1]>>

\* a join that writes the first item only
JoinFirstOnly(items) == IF items = <<>> THEN <<>> ELSE items[1]

RECURSIVE JoinItems(_)
\* ", ".join(items)
JoinItems(items) ==
    IF items = <<>> THEN <<>>
    ELSE IF Len(items) = 1 THEN items[1]
    ELSE items[1] \o <<",", " ">> \o JoinItems(Tail(items))

RECURSIVE JsonDumps(_)
\* json.dump with its default separators; the strings of the model hold no
\* character that json escapes
JsonDumps(val) ==
    CASE val.t = "int" -> IntRepr(val.v)
      [] val.t = "str" -> <<QUOTE>> \o val.v \o <<QUOTE>>
      [] val.t = "arr" ->
            <<"[">> \o JoinItems([i \in DOMAIN val.v |-> JsonDumps(val.v[i])]) \o <<"]">>
      [] val.t = "obj" ->
            <<"{">>
            \o JoinItems([i \in DOMAIN val.v |->
                   <<QUOTE>> \o val.v[i][1] \o <<QUOTE, ":", " ">> \o JsonDumps(val.v[i][2])])
            \o <<"}">>

Fail == [ok |-> FALSE, val |-> None, end |-> 0]

Done(val, end) == [ok |-> TRUE, val |-> val, end |-> end]

CharAt(s, i) == IF i \in DOMAIN s THEN s[i] ELSE ""

RECURSIVE SkipWs(_, _)
\* WHITESPACE.match(s, end).end(): the first position at or after i that
\* holds no whitespace
SkipWs(s, i) == IF CharAt(s, i) \in Whitespace THEN SkipWs(s, i + 1) ELSE i

\* scanstring: s[i - 1] is the opening quote; the string ends at the next
\* quote and holds no control character
ScanString(s, i) ==
    LET rest == SubSeq(s, i, Len(s))
        q == FirstIn(rest, {QUOTE})
        body == SubSeq(rest, 1, q - 1)
    IN  IF q = 0 \/ \E k \in DOMAIN body : body[k] \in {TAB, NL, "\r"} THEN Fail
        ELSE Done(body, i + q)

RECURSIVE DigitRun(_, _)
DigitRun(s, i) == IF CharAt(s, i) \in DigitChars THEN DigitRun(s, i + 1) ELSE i

\* NUMBER_RE: 0, or a digit from 1 to 9 followed by digits
ScanNumber(s, i) ==
    LET e == IF s[i] = "0" THEN i + 1 ELSE DigitRun(s, i)
    IN  Done(JInt(DecimalValue(SubSeq(s, i, e - 1))), e)

RECURSIVE ScanOnce(_, _), ScanMembers(_, _, _), ScanElements(_, _, _)
\* scan_once: the value that starts at position i
ScanOnce(s, i) ==
    LET c == CharAt(s, i)
    IN  CASE c = QUOTE ->
                LET r == ScanString(s, i + 1)
                IN  IF r.ok THEN Done(JStr(r.val), r.end) ELSE Fail
          [] c = "{" ->
                LET j == SkipWs(s, i + 1)
                IN  IF CharAt(s, j) = "}" THEN Done(JObj(<<>>), j + 1)
                    ELSE ScanMembers(s, j, <<>>)
          [] c = "[" ->
                LET j == SkipWs(s, i + 1)
                IN  IF CharAt(s, j) = "]" THEN Done(JArr(<<>>), j + 1)
                    ELSE ScanElements(s, j, <<>>)
          [] c \in DigitChars -> ScanNumber(s, i)
          [] OTHER -> Fail

\* JSONObject: position i is where a property name has to start
ScanMembers(s, i, pairs) ==
    IF CharAt(s, i) # QUOTE THEN Fail
    ELSE LET k == ScanString(s, i + 1)
             colon == IF k.ok THEN SkipWs(s, k.end) ELSE 0
             val == IF k.ok /\ CharAt(s, colon) = ":"
                    THEN ScanOnce(s, SkipWs(s, colon + 1)) ELSE Fail
             next == IF val.ok THEN SkipWs(s, val.end) ELSE 0
             sofar == DictSet(pairs, k.val, val.val)
         IN  IF ~val.ok THEN Fail
             ELSE IF CharAt(s, next) = "}" THEN Done(JObj(sofar), next + 1)
             ELSE IF CharAt(s, next) = "," THEN ScanMembers(s, SkipWs(s, next + 1), sofar)
             ELSE Fail

\* JSONArray: position i is where an element has to start
ScanElements(s, i, items) ==
    LET val == ScanOnce(s, i)
        next == IF val.ok THEN SkipWs(s, val.end) ELSE 0
        sofar == Append(items, val.val)
    IN  IF ~val.ok THEN Fail
        ELSE IF CharAt(s, next) = "]" THEN Done(JArr(sofar), next + 1)
        ELSE IF CharAt(s, next) = "," THEN ScanElements(s, SkipWs(s, next + 1), sofar)
        ELSE Fail

\* json.load: one value between optional whitespace, then end of input
JsonLoads(s) ==
    LET r == ScanOnce(s, SkipWs(s, 1))
    IN  IF r.ok /\ SkipWs(s, r.end) = Len(s) + 1 THEN r ELSE Fail

\* ----------------------------------------------------------------- inputs
\* corpus lines "<id>TAB<content>": the ids and contents the corpora draw on
IdTexts == {<<"0">>, <<"1">>}

Contents == {<<"a">>, <<"b", " ", "a", ".", "a">>, <<" ", "A">>, <<>>}

\* lines that load_documents cannot parse: a non-integer id, no tab, blank
BadLines == {<<"x", TAB, "a", NL>>, <<"1", " ", "a", NL>>, <<NL>>}

LastLines == {id \o <<TAB>> \o c : id \in IdTexts, c \in Contents}

Lines == {l \o <<NL>> : l \in LastLines} \cup BadLines

\* a corpus file: every line but the last one ends with a newline
Corpora ==
    UNION {{ls \o <<l>> : ls \in [1..(n - 1) -> Lines], l \in Lines \cup LastLines}
           : n \in 1..MaxDocs} \cup {<<>>}

StopFiles ==
    { <<>>, <<<<"a", NL>>>>, <<<<" ", "B", " ", NL>>, <<NL>>>> }

\* contents of a persisted index file that process_query may be given
IndexFiles ==
    { <<"{", QUOTE, "a", QUOTE, ":", " ", "[", "0", ",", " ", "1", "]", ",", " ", QUOTE, "b", QUOTE, ":", " ", "[", "1", "]", "}">>,
      <<"{", QUOTE, "a", QUOTE, ":", " ", "[", "1", ",", " ", "1", "]", ",", " ", QUOTE, "b", QUOTE, ":", " ", "[", "]", "}">>,
      <<"{", "}">>,
      <<"[", "1", "]">>,
      <<"{", QUOTE, "a", QUOTE, ":", " ", "[", QUOTE, "b", QUOTE, "]", "}">>,
      <<"{", QUOTE, "a", QUOTE, ":", " ", "[", "0", "]">>,
      <<>>,
      <<"{", QUOTE, "a", QUOTE, ":", " ", "1", "}">>,
      <<"{", QUOTE, "a", QUOTE, ":", " ", "[", "[", "0", "]", "]", "}">>,
      <<"{", QUOTE, "a", QUOTE, ":", " ", QUOTE, "a", "b", QUOTE, "}">>,
      <<"7">>,
      <<" ", "{", QUOTE, "a", QUOTE, " ", ":", " ", "[", "0", "]", " ", "}", NL>>,
      <<"{", QUOTE, "a", QUOTE, ":", " ", "[", "0", "]", ",", " ", QUOTE, "a", QUOTE, ":", " ", "[", "1", "]", "}">>,
      <<"{", QUOTE, "a", QUOTE, ":", " ", "{", QUOTE, "b", QUOTE, ":", " ", "[", "0", "]", "}", "}">> }

Terms == {<<"a">>, <<"b">>, <<"z">>}

TermSeqs == UNION {[1..n -> Terms] : n \in 0..MaxTerms}

\* ------------------------------------------------------------------ build
RECURSIVE AddWordsOverwrite(_, _, _)
\* a loop that assigns {doc_id} to the word instead of adding to its set
AddWordsOverwrite(acc, ws, doc_id) ==
    IF ws = <<>> THEN acc
    ELSE AddWordsOverwrite(DictSet(acc, Head(ws), {doc_id}), Tail(ws), doc_id)

RECURSIVE AddWords(_, _, _)
\* for filtered_word in filtered_words: inverted_index[filtered_word].add(doc_id)
AddWords(acc, ws, doc_id) ==
    IF ws = <<>> THEN acc
    ELSE AddWords(DictSet(acc, Head(ws), DictGet(acc, Head(ws), {}) \cup {doc_id}),
                  Tail(ws), doc_id)

RECURSIVE BuildLoop(_, _, _)
\* for doc_id, content in documents.items(): split, filter, add
BuildLoop(acc, items, stop) ==
    IF items = <<>> THEN acc
    ELSE BuildLoop(AddWords(acc, FilterWords(ReSplit(items[1][2]), stop), items[1][1]),
                   Tail(items), stop)

\* list(a_set): the elements once each, in an order the set decides
ListsOf(S) == {l \in [1..Cardinality(S) -> S] : Range(l) = S}

RECURSIVE Freeze(_)
\* {word: list(doc_ids) for word, doc_ids in inverted_index.items()}
Freeze(acc) ==
    IF acc = <<>> THEN {<<>>}
    ELSE {<<<<acc[1][1], JArr(l)>>>> \o rest :
              l \in ListsOf({JInt(d) : d \in acc[1][2]}), rest \in Freeze(Tail(acc))}

\* ------------------------------------------------------------------ query
Falsy(val) ==
    \/ val.t = "none"
    \/ val.t = "int" /\ val.v = 0
    \/ val.t \in {"str", "arr", "obj"} /\ val.v = <<>>

\* an update that adds the first element of the entry only
ElementsFirstOnly(entry) ==
    IF entry.t = "arr" THEN [ok |-> TRUE, val |-> {entry.v[1]}]
    ELSE [ok |-> FALSE, val |-> {}]

\* what result.update(entry) adds; ok is FALSE where it raises TypeError
Elements(entry) ==
    CASE entry.t = "arr" ->
            [ok |-> \A i \in DOMAIN entry.v : entry.v[i].t \in {"int", "str"},
             val |-> Range(entry.v)]
      [] entry.t = "str" -> [ok |-> TRUE, val |-> {JStr(<<entry.v[i]>>) : i \in DOMAIN entry.v}]
      [] entry.t = "obj" -> [ok |-> TRUE, val |-> {JStr(k) : k \in DictKeys(entry.v)}]
      [] OTHER -> [ok |-> FALSE, val |-> {}]

RECURSIVE QueryLoopBreak(_, _, _)
\* a loop that stops at the first term without an entry
QueryLoopBreak(idx, ws, res) ==
    IF ws = <<>> THEN [ok |-> TRUE, val |-> res]
    ELSE IF idx.t # "obj" THEN [ok |-> FALSE, val |-> res]
    ELSE LET entry == DictGet(idx.v, Head(ws), None)
         IN  IF Falsy(entry) THEN [ok |-> TRUE, val |-> res]
             ELSE IF ~Elements(entry).ok THEN [ok |-> FALSE, val |-> res]
             ELSE QueryLoopBreak(idx, Tail(ws), res \cup Elements(entry).val)

RECURSIVE QueryLoop(_, _, _)
\* the loop of InvertedIndex.query: ok is FALSE where it raises
QueryLoop(idx, ws, res) ==
    IF ws = <<>> THEN [ok |-> TRUE, val |-> res]
    ELSE IF idx.t # "obj" THEN [ok |-> FALSE, val |-> res]
    ELSE LET entry == DictGet(idx.v, Head(ws), None)
         IN  IF Falsy(entry) THEN QueryLoop(idx, Tail(ws), res)
             ELSE IF ~Elements(entry).ok THEN [ok |-> FALSE, val |-> res]
             ELSE QueryLoop(idx, Tail(ws), res \cup Elements(entry).val)

\* ------------------------------------------------------------- the system
Init ==
    /\ \/ /\ pc = "load_documents"
          /\ dataset \in Corpora
          /\ stopfile \in StopFiles
          /\ indexFile = <<>>
       \/ /\ pc = "load"
          /\ dataset = <<>>
          /\ stopfile = <<>>
          /\ indexFile \in IndexFiles
    /\ lineNo = 1
    /\ docs = <<>>
    /\ documents = None
    /\ stopwords = {}
    /\ built = None
    /\ index = None
    /\ words = <<>>
    /\ result = <<>>
    /\ dumped = FALSE

\* a loader that skips the line it cannot parse
LoadDocumentsLineSkip ==
    /\ pc = "load_documents"
    /\ lineNo <= Len(dataset)
    /\ LET parts == SplitTab(Lower(dataset[lineNo]))
       IN  IF Len(parts) = 2 /\ IntOk(parts[1])
           THEN docs' = DictSet(docs, IntValue(parts[1]), parts[2])
           ELSE docs' = docs
    /\ lineNo' = lineNo + 1
    /\ UNCHANGED <<pc, dataset, documents, stopfile, stopwords, built, indexFile,
                   index, words, result, dumped>>

\* load_documents, one line: split at the first tab, convert the id
LoadDocumentsLine ==
    /\ pc = "load_documents"
    /\ lineNo <= Len(dataset)
    /\ LET parts == SplitTab(Lower(dataset[lineNo]))
       IN  IF Len(parts) = 2 /\ IntOk(parts[1])
           THEN /\ docs' = DictSet(docs, IntValue(parts[1]), parts[2])
                /\ lineNo' = lineNo + 1
                /\ pc' = pc
           ELSE /\ pc' = "error"
                /\ UNCHANGED <<docs, lineNo>>
    /\ UNCHANGED <<dataset, documents, stopfile, stopwords, built, indexFile,
                   index, words, result, dumped>>

\* load_documents returns its mapping to process_build
LoadDocumentsReturn ==
    /\ pc = "load_documents"
    /\ lineNo > Len(dataset)
    /\ documents' = [t |-> "dict", v |-> docs]
    /\ pc' = "load_stopwords"
    /\ UNCHANGED <<dataset, lineNo, docs, stopfile, stopwords, built, indexFile,
                   index, words, result, dumped>>

LoadStopwords ==
    /\ pc = "load_stopwords"
    /\ stopwords' = {Lower(Strip(stopfile[i])) : i \in DOMAIN stopfile}
    /\ pc' = "build"
    /\ UNCHANGED <<dataset, lineNo, docs, documents, stopfile, built, indexFile,
                   index, words, result, dumped>>

BuildInvertedIndex ==
    /\ pc = "build"
    /\ \E mapped \in Freeze(BuildLoop(<<>>, documents.v, stopwords)) :
           built' = JObj(mapped)
    /\ pc' = "dump"
    /\ UNCHANGED <<dataset, lineNo, docs, documents, stopfile, stopwords,
                   indexFile, index, words, result, dumped>>

\* inverted_index.dump(output) ends process_build: its streams are closed
\* and its locals are gone; the instance it built is kept only to compare it
\* with what a later process_query loads from the written file
Dump ==
    /\ pc = "dump"
    /\ indexFile' = JsonDumps(built)
    /\ dumped' = TRUE
    /\ pc' = "load"
    /\ dataset' = <<>>
    /\ stopfile' = <<>>
    /\ lineNo' = 1
    /\ docs' = <<>>
    /\ documents' = None
    /\ stopwords' = {}
    /\ UNCHANGED <<built, index, words, result>>

Load ==
    /\ pc = "load"
    /\ LET r == JsonLoads(indexFile)
       IN  IF r.ok THEN index' = r.val /\ pc' = "query"
           ELSE index' = index /\ pc' = "error"
    /\ UNCHANGED <<dataset, lineNo, docs, documents, stopfile, stopwords, built,
                   indexFile, words, result, dumped>>

RECURSIVE InsertMissing(_, _)
InsertMissing(d, ws) ==
    IF ws = <<>> THEN d
    ELSE InsertMissing(IF DictHas(d, Head(ws)) THEN d ELSE DictSet(d, Head(ws), JArr(<<>>)),
                       Tail(ws))

\* a query that subscripts a defaultdict: a term without an entry gets one
QueryInserting ==
    /\ pc \in {"query", "printed"}
    /\ index.t = "obj"
    /\ \E ws \in TermSeqs :
          LET r == QueryLoop(index, ws, {})
          IN  /\ r.ok
              /\ words' = ws
              /\ result' \in ListsOf(r.val)
              /\ index' = JObj(InsertMissing(index.v, ws))
              /\ pc' = "printed"
    /\ UNCHANGED <<dataset, lineNo, docs, documents, stopfile, stopwords, built,
                   indexFile, dumped>>

\* one query of process_query
Query ==
    /\ pc \in {"query", "printed"}
    /\ \E ws \in TermSeqs :
          LET r == QueryLoop(index, ws, {})
          IN  IF r.ok
              THEN /\ words' = ws
                   /\ result' \in ListsOf(r.val)
                   /\ pc' = "printed"
              ELSE /\ pc' = "error"
                   /\ UNCHANGED <<words, result>>
    /\ UNCHANGED <<dataset, lineNo, docs, documents, stopfile, stopwords, built,
                   indexFile, index, dumped>>

Next ==
    \/ LoadDocumentsLine
    \/ LoadDocumentsReturn
    \/ LoadStopwords
    \/ BuildInvertedIndex
    \/ Dump
    \/ Load
    \/ Query

Spec == Init /\ [][Next]_vars

\* ------------------------------------------------------- views for claims
\* the value is a token -> list-of-int-ids mapping
IsTokenIds(val) ==
    /\ val.t = "obj"
    /\ \A i \in DOMAIN val.v :
          /\ val.v[i][2].t = "arr"
          /\ \A j \in DOMAIN val.v[i][2].v : val.v[i][2].v[j].t = "int"

\* the ids stored under key k of a token -> ids mapping, as a set
IdsUnder(idx, k) ==
    LET entry == DictGet(idx.v, k, JArr(<<>>))
    IN  {entry.v[j].v : j \in DOMAIN entry.v}

\* the set of ids a query of ws returns
QuerySet(idx, ws) == QueryLoop(idx, ws, {}).val

\* a token in the sense of the data model: a maximal non-empty run of word
\* characters of the content
TokensOf(content) ==
    {SubSeq(content, i, j) : <<i, j>> \in
        {ij \in (DOMAIN content) \X (DOMAIN content) :
            /\ ij[1] <= ij[2]
            /\ \A k \in ij[1]..ij[2] : content[k] \in WordChars
            /\ CharAt(content, ij[1] - 1) \notin WordChars
            /\ CharAt(content, ij[2] + 1) \notin WordChars}}

DocIds == DictKeys(documents.v)

ContentOf(d) == DictGet(documents.v, d, <<>>)

Orders(s) == {p \in [DOMAIN s -> Range(s)] : Range(p) = Range(s)}

\* C1: after build, id d is stored under token t iff t is a token of
\* document d's content and t is not a stopword; no stopword is a key.
C1_BuiltIffTokenAndNotStopword ==
    pc = "dump" =>
        /\ \A t \in DictKeys(built.v) \cup UNION {TokensOf(ContentOf(d)) : d \in DocIds} :
              \A d \in DocIds \cup IdsUnder(built, t) :
                  d \in IdsUnder(built, t)
                      <=> (d \in DocIds /\ t \in TokensOf(ContentOf(d)) /\ t \notin stopwords)
        /\ DictKeys(built.v) \cap stopwords = {}

\* C4: the built index has no empty-string key and every key consists of
\* word characters only.
C4_NoEmptyKey ==
    pc = "dump" =>
        \A k \in DictKeys(built.v) : k # <<>> /\ \A i \in DOMAIN k : k[i] \in WordChars

NonEmptyEntries(idx) == \A i \in DOMAIN idx.v : Len(idx.v[i][2].v) >= 1

\* C5: every instance, built or loaded, has at least one id under each key.
C5_NoEmptyEntry ==
    /\ built # None => NonEmptyEntries(built)
    /\ (index # None /\ IsTokenIds(index)) => NonEmptyEntries(index)

Decodes(text) == JsonLoads(text).ok /\ IsTokenIds(JsonLoads(text).val)

\* C6: load returns no instance from content that does not decode into a
\* token -> ids structure.
C6_LoadRejectsMalformed == ~Decodes(indexFile) => index = None

\* the line lacks the tab, or the text before the tab is not an integer
BadLine(line) ==
    \/ TAB \notin Range(line)
    \/ ~\E n \in 0..99 : Strip(SubSeq(line, 1, FirstIn(line, {TAB}) - 1)) = IntRepr(n)

FirstBad == CHOOSE i \in DOMAIN dataset :
                BadLine(dataset[i]) /\ \A j \in 1..(i - 1) : ~BadLine(dataset[j])

\* C7: with a corpus line that lacks the tab or has a non-integer id,
\* load_documents stops at the first such line with an error: it returns no
\* mapping, no index is built and dump is not called.
C7_BadLineFailsBuild ==
    (\E i \in DOMAIN dataset : BadLine(dataset[i])) =>
        /\ pc \in {"load_documents", "error"}
        /\ lineNo <= FirstBad
        /\ pc = "error" => lineNo = FirstBad
        /\ documents = None
        /\ built = None
        /\ ~dumped
        /\ indexFile = <<>>

C7_Witness ==
    /\ pc = "error"
    /\ lineNo = 2
    /\ docs # <<>>
    /\ BadLine(dataset[2])

\* C2: on a token -> ids index a query raises nothing and returns, without
\* duplicates, exactly the union of the collections stored under the terms
\* that are keys; no terms, empty result.
C2_QueryIsUnion ==
    (pc = "printed" /\ IsTokenIds(index)) =>
        /\ Range(result) =
              {JInt(d) : d \in UNION {IdsUnder(index, words[i]) :
                                         i \in {j \in DOMAIN words : DictHas(index.v, words[j])}}}
        /\ Len(result) = Cardinality(Range(result))
        /\ words = <<>> => result = <<>>
        /\ \A ws \in TermSeqs : QueryLoop(index, ws, {}).ok

C2_Witness ==
    /\ pc = "printed"
    /\ IsTokenIds(index)
    /\ Len(words) = 2
    /\ DictHas(index.v, words[1])
    /\ ~DictHas(index.v, words[2])
    /\ Len(result) = 2

\* C8: the ids returned for A ++ B are the union of the ids returned for A
\* and for B, for every way to cut the queried terms in two; [t, t] returns
\* what [t] returns.
C8_QueryDistributes ==
    pc = "printed" =>
        /\ \A i \in 0..Len(words) :
              Range(result) = QuerySet(index, SubSeq(words, 1, i))
                                  \cup QuerySet(index, SubSeq(words, i + 1, Len(words)))
        /\ (Len(words) = 2 /\ words[1] = words[2]) =>
              Range(result) = QuerySet(index, <<words[1]>>)

C8_Witness ==
    /\ pc = "printed"
    /\ Len(words) = 2
    /\ QuerySet(index, <<words[1]>>) # {}
    /\ QuerySet(index, <<words[2]>>) # {}
    /\ QuerySet(index, <<words[1]>>) # QuerySet(index, <<words[2]>>)
    /\ Cardinality(Range(result)) = 2

QueryFrame ==
    pc \in {"query", "printed"} =>
        /\ index' = index
        /\ (pc = "printed" /\ pc' = "printed" /\ words' = words) =>
              Range(result') = Range(result)

\* C10: a query leaves the mapping of the instance as it was, and the same
\* query asked again returns the same set of ids.
C10_QueryKeepsIndex == [][QueryFrame]_vars

C10_Witness ==
    /\ pc = "printed"
    /\ index.t = "obj"
    /\ \E i \in DOMAIN words : ~DictHas(index.v, words[i])
    /\ \E i \in DOMAIN words : DictHas(index.v, words[i])
    /\ result # <<>>

\* C3: the index loaded from the dump of a built index has the same keys
\* and the same set of ids per key, and answers every query with the same
\* set of ids.
C3_RoundTrip ==
    (dumped /\ pc # "load") =>
        /\ index # None
        /\ DictKeys(index.v) = DictKeys(built.v)
        /\ \A k \in DictKeys(built.v) : IdsUnder(index, k) = IdsUnder(built, k)
        /\ \A ws \in TermSeqs : QuerySet(index, ws) = QuerySet(built, ws)

C3_Witness ==
    /\ dumped
    /\ pc = "query"
    /\ Len(built.v) >= 2
    /\ \E k \in DictKeys(built.v) : Cardinality(IdsUnder(built, k)) = 2

\* the accumulated mapping and the built index as sets of <<key, id set>>
AccView(acc) == {<<acc[i][1], acc[i][2]>> : i \in DOMAIN acc}

IndexView(idx) == {<<k, IdsUnder(idx, k)>> : k \in DictKeys(idx.v)}

\* C9: every processing order of the documents gives the keys and the id
\* sets of the built index, and no id is listed twice under a key.
C9_OrderIndependent ==
    pc = "dump" =>
        /\ \A p \in Orders(documents.v) :
              AccView(BuildLoop(<<>>, p, stopwords)) = IndexView(built)
        /\ \A i \in DOMAIN built.v :
              Len(built.v[i][2].v) = Cardinality(Range(built.v[i][2].v))

C9_Witness ==
    /\ pc = "dump"
    /\ Len(documents.v) = 2
    /\ \E d \in DocIds : \E i, j \in DOMAIN ReSplit(ContentOf(d)) :
          i # j /\ ReSplit(ContentOf(d))[i] = ReSplit(ContentOf(d))[j]
                /\ DictHas(built.v, ReSplit(ContentOf(d))[i])
                /\ ReSplit(ContentOf(d))[i] # <<>>
    /\ \E k \in DictKeys(built.v) : Cardinality(IdsUnder(built, k)) = 2

=============================================================================
